---------------------------- MODULE Spec2Model ----------------------------
(***************************************************************************)
(* Model of stress-spectrum.py: the StressSpectrum collector (append,      *)
(* stats, save), the RandomEvent factory and linear_interpolation.         *)
(*                                                                         *)
(* Numbers.  A Python float is a binary floating-point number: a dyadic    *)
(* rational with a bounded significand, every operation rounded to the     *)
(* nearest representable value, ties to even.  The collector's floats are  *)
(* modelled as integers counting units of 1/Unit, with a significand of    *)
(* Precision bits (binary64 has 53), so that the rounding of sums and      *)
(* products shows on small numbers.  The factory functions are modelled    *)
(* in exact rational arithmetic.                                           *)
(***************************************************************************)
EXTENDS Integers, Sequences, FiniteSets

VARIABLES
    filename,    \* self.filename
    prestres,    \* self.prestres   (float, in units of 1/Unit)
    sf_stress,   \* self.sf_stress  (float, in units of 1/Unit)
    sf_cycles,   \* self.sf_cycles  (float, in units of 1/Unit)
    events,      \* self.events: sequence of Event records
    fs,          \* the file system: file name -> sequence of lines
    fh,          \* the file object of save(): "closed" or "open"
    pc,          \* position of the single thread: "idle", "loop", "exit"
    i,           \* save(): index of the next event to write
    verbose,     \* save(): its argument
    exc,         \* save(): the exception in flight, or "none"
    ret          \* the outcome of the last completed call

vars == <<filename, prestres, sf_stress, sf_cycles, events,
          fs, fh, pc, i, verbose, exc, ret>>

config == <<filename, prestres, sf_stress, sf_cycles>>

-----------------------------------------------------------------------------
(* Bounds of the model *)

\* number of significand bits of the modelled float
Precision == 4
\* longest event sequence explored
MaxEvents == 3
\* n of RandomEvent is drawn from the multiples of 1/NScale
NScale == 2
\* the tables interpolated have their keys in 0..MaxKey
MaxKey == 3
\* and their values in 0..MaxValue
MaxValue == 2

-----------------------------------------------------------------------------
(* Floating-point arithmetic *)

\* one unit of the float grid is 1/Unit: the value x stands for x/8
Unit == 2 ^ 3

Abs(x) == IF x < 0 THEN -x ELSE x

\* nearest integer to n/d (d > 0), ties to the even integer
RoundDiv(n, d) ==
    LET q == n \div d
        r == n - q * d
    IN  IF 2 * r < d THEN q
        ELSE IF 2 * r > d THEN q + 1
        ELSE IF q % 2 = 0 THEN q ELSE q + 1

\* the binary exponent at which n/d is rounded: the least e with
\* |n/d| < 2^(Precision + e)
RECURSIVE Exponent(_, _, _)
Exponent(n, d, e) ==
    IF Abs(n) < (2 ^ (Precision + e)) * d THEN e ELSE Exponent(n, d, e + 1)

\* the float nearest to the exact value n/d (in units), ties to even
Round(n, d) ==
    LET q == 2 ^ Exponent(n, d, 0)
    IN  q * RoundDiv(n, d * q)

\* a + b and a * b of two floats
FAdd(a, b) == Round(a + b, 1)
FMul(a, b) == Round(a * b, Unit)

\* math.ceil of a float: an exact integer
Ceil(x) == -((-x) \div Unit)

\* f"{x:4.2f}": the decimal with two digits nearest to the float's exact
\* value, ties to even; the result is the number of hundredths
Fmt2(x) == RoundDiv(x * 100, Unit)


-----------------------------------------------------------------------------
(* Python values *)

\* a str object and the None object (an Event's desc is not validated)
Str(s) == [type |-> "str", value |-> s]
None == [type |-> "NoneType"]

\* Event = namedtuple("Event", ["neq", "s_min", "s_max", "desc"])
Event(neq, s_min, s_max, desc) ==
    [neq |-> neq, s_min |-> s_min, s_max |-> s_max, desc |-> desc]

\* the outcome of a call or of a builtin: a value, or the exception raised
Ok(v) == [ok |-> TRUE, value |-> v]
Raise(e) == [ok |-> FALSE, error |-> e]

Front(s) == SubSeq(s, 1, Len(s) - 1)
Last(s) == s[Len(s)]

\* sum(xs): the left-to-right fold of +, starting from the int 0
RECURSIVE sum(_)
sum(xs) == IF xs = <<>> THEN 0 ELSE FAdd(sum(Front(xs)), Last(xs))

\* max(xs), min(xs): ValueError on an empty sequence
max(xs) ==
    IF xs = <<>> THEN Raise("ValueError")
    ELSE Ok(CHOOSE m \in {xs[k] : k \in DOMAIN xs} :
                \A k \in DOMAIN xs : xs[k] <= m)
min(xs) ==
    IF xs = <<>> THEN Raise("ValueError")
    ELSE Ok(CHOOSE m \in {xs[k] : k \in DOMAIN xs} :
                \A k \in DOMAIN xs : m <= xs[k])

-----------------------------------------------------------------------------
(* The inputs explored *)

\* floats, in units of 1/Unit: 0.0 and 0.625; 1.0 and 1.5; 1.0 and 4.0
Prestresses == {0, 5}
StressFactors == {8, 12}
CycleFactors == {8, 32}
Filenames == {"example.spc", "other.spc"}

\* a file as the sequence of its lines
Header == [text |-> "max min cycle format"]
OldContents == {<<>>, <<[text |-> "stale"], [text |-> "stale"]>>}

\* neq 2.0, 0.375 and 0.75; the last event has s_min > s_max and no desc
EventInputs ==
    { Event(16, -8, 8, Str("Random X")),
      Event(3, -3, 5, Str("Thermoelastic")),
      Event(6, 4, -4, None) }

-----------------------------------------------------------------------------
(* StressSpectrum *)

\* __init__: the configuration is stored and the event list is empty
Init ==
    /\ filename \in Filenames
    /\ prestres \in Prestresses
    /\ sf_stress \in StressFactors
    /\ sf_cycles \in CycleFactors
    /\ events = <<>>
    /\ \E c \in OldContents : fs = [f \in Filenames |-> c]
    /\ fh = "closed"
    /\ pc = "idle"
    /\ i = 0
    /\ verbose = TRUE
    /\ exc = "none"
    /\ ret = [op |-> "__init__", status |-> "ok"]

\* append(event): self.events.append(event)
append_front(event) ==
    /\ pc = "idle"
    /\ Len(events) < MaxEvents
    /\ events' = <<event>> \o events
    /\ ret' = [op |-> "append", status |-> "ok", event |-> event]
    /\ UNCHANGED <<config, fs, fh, pc, i, verbose, exc>>
append(event) ==
    /\ pc = "idle"
    /\ Len(events) < MaxEvents
    /\ events' = Append(events, event)
    /\ ret' = [op |-> "append", status |-> "ok", event |-> event]
    /\ UNCHANGED <<config, fs, fh, pc, i, verbose, exc>>

\* total_n = self.sf_cycles * sum(neq); math.ceil(total_n)
total_cycles(evs) ==
    Ceil(FMul(sf_cycles, sum([k \in DOMAIN evs |-> evs[k].neq])))

\* what stats() prints, or the exception it raises
stats_report(evs) ==
    LET mx == max([k \in DOMAIN evs |-> evs[k].s_max])
        mn == min([k \in DOMAIN evs |-> evs[k].s_min])
    IN  IF ~mx.ok THEN [op |-> "stats", status |-> mx.error]
        ELSE IF ~mn.ok THEN [op |-> "stats", status |-> mn.error]
        ELSE [op |-> "stats", status |-> "ok",
              s_max |-> Fmt2(FAdd(FMul(sf_stress, mx.value), prestres)),
              s_min |-> Fmt2(FAdd(FMul(sf_stress, mn.value), prestres)),
              total |-> total_cycles(evs),
              cycles |-> sf_cycles,
              stress |-> sf_stress]

\* stats()
stats_draining ==
    /\ pc = "idle"
    /\ ret' = stats_report(events)
    /\ events' = IF ret'.status = "ok" THEN <<>> ELSE events
    /\ UNCHANGED <<config, fs, fh, pc, i, verbose, exc>>
stats ==
    /\ pc = "idle"
    /\ ret' = stats_report(events)
    /\ UNCHANGED <<config, events, fs, fh, pc, i, verbose, exc>>

\* open(self.filename, "w"): the file is created or truncated
open_a(content) == content
open_w(content) == <<>>

\* the data line of one event: the scaled stresses with two decimals and
\* the scaled, rounded-up cycles
line_prestress_scaled(event) ==
    [s_max |-> Fmt2(FMul(sf_stress, FAdd(event.s_max, prestres))),
     s_min |-> Fmt2(FMul(sf_stress, FAdd(event.s_min, prestres))),
     neq |-> Ceil(FMul(sf_cycles, event.neq))]
line(event) ==
    [s_max |-> Fmt2(FAdd(FMul(sf_stress, event.s_max), prestres)),
     s_min |-> Fmt2(FAdd(FMul(sf_stress, event.s_min), prestres)),
     neq |-> Ceil(FMul(sf_cycles, event.neq))]

\* save(verbose): the file is opened and the header line written
save_enter_needs_events(v) ==
    /\ pc = "idle"
    /\ IF events = <<>>
         THEN /\ ret' = [op |-> "save", status |-> "ValueError"]
              /\ UNCHANGED <<fs, fh, pc, i, exc>>
         ELSE /\ fs' = [fs EXCEPT ![filename] = Append(open_w(@), Header)]
              /\ fh' = "open"
              /\ pc' = "loop"
              /\ i' = 1
              /\ exc' = "none"
              /\ ret' = ret
    /\ verbose' = v
    /\ UNCHANGED <<config, events>>
save_enter(v) ==
    /\ pc = "idle"
    /\ fs' = [fs EXCEPT ![filename] = Append(open_w(@), Header)]
    /\ fh' = "open"
    /\ pc' = "loop"
    /\ i' = 1
    /\ verbose' = v
    /\ exc' = "none"
    /\ UNCHANGED <<config, events, ret>>

\* save(verbose): open() fails, nothing is opened and save() raises
save_open_fails(v) ==
    /\ pc = "idle"
    /\ verbose' = v
    /\ i' = 0
    /\ exc' = "none"
    /\ ret' = [op |-> "save", status |-> "FileNotFoundError"]
    /\ UNCHANGED <<config, events, fs, fh, pc>>

\* one iteration of the loop over self.events: the line is written, and
\* echoed with the description when verbose (str + desc raises TypeError
\* when desc is no str)
save_write ==
    /\ pc = "loop"
    /\ i <= Len(events)
    /\ fs' = [fs EXCEPT ![filename] = Append(@, line(events[i]))]
    /\ IF verbose /\ events[i].desc.type # "str"
         THEN exc' = "TypeError" /\ pc' = "exit" /\ i' = i
         ELSE exc' = exc /\ pc' = pc /\ i' = i + 1
    /\ UNCHANGED <<config, events, fh, verbose, ret>>

\* fh.write fails (the device is full): OSError, the line is not written
save_write_fails ==
    /\ pc = "loop"
    /\ i <= Len(events)
    /\ exc' = "OSError"
    /\ pc' = "exit"
    /\ UNCHANGED <<config, events, fs, fh, i, verbose, ret>>

\* the file object's state when the with block is left with exception e
with_exit_leaky(e) == IF e = "none" THEN "closed" ELSE "open"
with_exit(e) == "closed"

\* the with block is left, at the end of the loop or by the exception
save_exit ==
    /\ \/ pc = "loop" /\ i > Len(events)
       \/ pc = "exit"
    /\ fh' = with_exit(exc)
    /\ pc' = "idle"
    /\ ret' = [op |-> "save", status |-> IF exc = "none" THEN "ok" ELSE exc]
    /\ UNCHANGED <<config, events, fs, i, verbose, exc>>

Next ==
    \/ \E event \in EventInputs : append(event)
    \/ stats
    \/ \E v \in BOOLEAN : save_enter(v)
    \/ \E v \in BOOLEAN : save_open_fails(v)
    \/ save_write
    \/ save_write_fails
    \/ save_exit

Spec == Init /\ [][Next]_vars


-----------------------------------------------------------------------------
(* Properties of the collector *)

\* the last call was a save() that returned normally
SaveCompleted == pc = "idle" /\ ret.op = "save" /\ ret.status = "ok"

\* the last call was a stats() that returned normally
StatsCompleted == pc = "idle" /\ ret.op = "stats" /\ ret.status = "ok"

\* C1: after a completed save() the file holds the header line followed by
\* one data line per event, in append order, the line of event e carrying
\* sf_stress*e.s_max + prestress, sf_stress*e.s_min + prestress (each with
\* two decimals) and ceil(sf_cycles*e.neq)
C1_SaveContent ==
    SaveCompleted =>
        LET f == fs[filename]
        IN  /\ Len(f) = Len(events) + 1
            /\ f[1] = [text |-> "max min cycle format"]
            /\ \A k \in 1..Len(events) :
                 /\ f[k + 1].s_max
                      = Fmt2(FAdd(FMul(sf_stress, events[k].s_max), prestres))
                 /\ f[k + 1].s_min
                      = Fmt2(FAdd(FMul(sf_stress, events[k].s_min), prestres))
                 /\ f[k + 1].neq = Ceil(FMul(sf_cycles, events[k].neq))

\* a completed save() of two different events, with a stress factor other
\* than 1 and a prestress other than 0
C1_Witness ==
    /\ SaveCompleted
    /\ Len(events) >= 2
    /\ events[1] # events[2]
    /\ sf_stress # Unit
    /\ prestres # 0

\* the exact value of ceil(sf_cycles * (neq_1 + ... + neq_n)), the sum and
\* the product taken in the rationals
RECURSIVE ExactSum(_)
ExactSum(xs) == IF xs = <<>> THEN 0 ELSE ExactSum(Front(xs)) + Last(xs)
ExactTotal(evs) ==
    -((-(sf_cycles * ExactSum([k \in DOMAIN evs |-> evs[k].neq])))
        \div (Unit * Unit))

\* the orders in which the events of evs can have been appended
AppendOrders(evs) ==
    { [k \in DOMAIN evs |-> evs[p[k]]] :
        p \in { q \in [DOMAIN evs -> DOMAIN evs] :
                  \A a, b \in DOMAIN evs : q[a] = q[b] => a = b } }

\* C2: the total reported by stats() is ceil(sf_cycles * sum of neq), and
\* is the same for every order in which the same events were appended
C2_TotalOrderIndependent ==
    StatsCompleted =>
        /\ ret.total = ExactTotal(events)
        /\ \A evs \in AppendOrders(events) : total_cycles(evs) = ret.total

\* the step belongs to a stats() or a save() call
ReadStep == pc # "idle" \/ pc' # "idle" \/ ret'.op \in {"stats", "save"}

\* C3: no step of stats() or save(), completing or failing, changes the
\* event sequence or the configuration
C3_ReadsArePure ==
    [][ReadStep => UNCHANGED <<events, config>>]_vars

\* a save() that failed and a later stats() on the same events
C3_Witness ==
    /\ StatsCompleted
    /\ Len(events) >= 2
    /\ exc = "TypeError"

\* the file save() produces for a collector: a function of its events and
\* configuration alone
FileImage(evs) == <<Header>> \o [k \in DOMAIN evs |-> line(evs[k])]

\* C4: whatever the file held before and whatever the verbose flag, the
\* file after a completed save() is the image of the events and the
\* configuration, so that a second save() in a row leaves the same bytes
C4_SaveOverwrites ==
    SaveCompleted => fs[filename] = FileImage(events)

\* a completed, non-verbose save() of events over a file that held other
\* lines (every file starts with the same content)
C4_Witness ==
    /\ SaveCompleted
    /\ ~verbose
    /\ events # <<>>
    /\ \E f \in Filenames : f # filename /\ fs[f] # <<>>

\* C5: the event sequence changes only by append(e), which always succeeds
\* and puts e after the events already there, leaving them in place
C5_AppendOnly ==
    [][events' # events =>
         /\ ret'.op = "append"
         /\ ret'.status = "ok"
         /\ events' = Append(events, ret'.event)]_vars

\* an event with s_min > s_max was accepted, another appended after it,
\* and stats() and save() have run since
C5_Witness ==
    /\ SaveCompleted
    /\ Len(events) >= 2
    /\ events[1].s_min > events[1].s_max
    /\ events[2].s_min < events[2].s_max

C9_FileClosedOutsideSave ==
    pc = "idle" => fh = "closed"

\* save() was left by an exception raised in the loop, after the file
\* was opened and a data line written
C9_Witness ==
    /\ pc = "idle"
    /\ ret.op = "save"
    /\ ret.status \in {"TypeError", "OSError"}
    /\ Len(fs[filename]) >= 2

\* the sum of the cycle counts on the data lines save() writes
RECURSIVE FileCycles(_)
FileCycles(evs) ==
    IF evs = <<>> THEN 0 ELSE FileCycles(Front(evs)) + line(Last(evs)).neq

\* C10: the total reported by stats() is never greater than the sum of the
\* cycle counts save() writes, and equal to it when every sf_cycles*neq is
\* an integer
C10_TotalAtMostFileTotal ==
    StatsCompleted =>
        /\ ret.total <= FileCycles(events)
        /\ (\A k \in DOMAIN events :
                (sf_cycles * events[k].neq) % (Unit * Unit) = 0)
             => ret.total = FileCycles(events)


-----------------------------------------------------------------------------
(* linear_interpolation and RandomEvent.  The factories are pure; their    *)
(* arithmetic is modelled in the rationals: keys, arguments and table      *)
(* values are integers of one grid, an interpolated value is a fraction.   *)

Rat(num, den) == [num |-> num, den |-> den]

\* sorted(table.keys())
RECURSIVE sorted(_)
sorted(S) ==
    IF S = {} THEN <<>>
    ELSE LET m == CHOOSE a \in S : \A b \in S : a <= b
         IN  <<m>> \o sorted(S \ {m})

\* interp1d's bounds check (bounds_error is on when no fill_value is given)
out_of_bounds_never(x, argument) == FALSE
out_of_bounds(x, argument) ==
    argument < x[1] \/ argument > x[Len(x)]

\* the line through (x_lo, y_lo) and (x_hi, y_hi) evaluated at argument
linear_previous(x_lo, x_hi, y_lo, y_hi, argument) == Rat(y_lo, 1)
linear(x_lo, x_hi, y_lo, y_hi, argument) ==
    Rat(y_lo * (x_hi - x_lo) + (y_hi - y_lo) * (argument - x_lo),
        x_hi - x_lo)

\* linear_interpolation(table, argument) = interp1d(x, y)(argument): the
\* segment is found by searchsorted (the number of keys below the
\* argument), clipped to the first and last segment
linear_interpolation(table, argument) ==
    LET x == sorted(DOMAIN table)
        y == [k \in DOMAIN x |-> table[x[k]]]
        below == Cardinality({k \in DOMAIN x : x[k] < argument})
        hi == IF below < 1 THEN 2
              ELSE IF below > Len(x) - 1 THEN Len(x) ELSE below + 1
        lo == hi - 1
    IN  IF Len(x) < 2 THEN Raise("ValueError")
        ELSE IF out_of_bounds(x, argument) THEN Raise("ValueError")
        ELSE Ok(linear(x[lo], x[hi], y[lo], y[hi], argument))

\* the table of RandomEvent: n -> coefficient, n in units of 1/NScale and
\* the coefficient in thousandths
table_n ==
    [n \in {k * NScale : k \in 2..6} |->
        IF n = 2 * NScale THEN 222
        ELSE IF n = 3 * NScale THEN 139
        ELSE IF n = 4 * NScale THEN 99
        ELSE IF n = 5 * NScale THEN 77
        ELSE 66]

\* math.ceil(num / den) for den > 0
CeilDiv(num, den) == -((-num) \div den)

\* RandomEvent(stress, fn, duration, n, desc)
RandomEvent(stress, fn, duration, n, desc) ==
    LET c == linear_interpolation(table_n, n)
    IN  IF ~c.ok THEN c
        ELSE Ok(Event(CeilDiv(fn * duration * c.value.num,
                              c.value.den * 1000),
                      -stress, stress, desc))

\* the tables and arguments explored
Tables ==
    UNION { [K -> 0..MaxValue] : K \in (SUBSET (0..MaxKey)) \ {{}} }
Arguments == -1..(MaxKey + 1)

Stresses == {0, 345}
Frequencies == {1, 7, 200}
Durations == {1, 120}
Exponents == NScale..(7 * NScale)

\* a run that makes one call of a factory function, next to a collector
\* with the default configuration on which no call is made
InitCalls ==
    /\ Init
    /\ filename = "example.spc"
    /\ prestres = 0
    /\ sf_stress = Unit
    /\ sf_cycles = 4 * Unit
    /\ fs = [f \in Filenames |-> <<>>]

call_linear_interpolation(table, argument) ==
    /\ ret.op = "__init__"
    /\ ret' = [op |-> "linear_interpolation", table |-> table,
               argument |-> argument,
               result |-> linear_interpolation(table, argument)]
    /\ UNCHANGED <<config, events, fs, fh, pc, i, verbose, exc>>

call_RandomEvent(stress, fn, duration, n) ==
    /\ ret.op = "__init__"
    /\ ret' = [op |-> "RandomEvent", stress |-> stress, fn |-> fn,
               duration |-> duration, n |-> n,
               result |-> RandomEvent(stress, fn, duration, n, Str(""))]
    /\ UNCHANGED <<config, events, fs, fh, pc, i, verbose, exc>>

NextCalls ==
    \/ \E table \in Tables, argument \in Arguments :
         call_linear_interpolation(table, argument)
    \/ \E stress \in Stresses, fn \in Frequencies, duration \in Durations,
          n \in Exponents :
         call_RandomEvent(stress, fn, duration, n)

SpecCalls == InitCalls /\ [][NextCalls]_vars

-----------------------------------------------------------------------------
(* Properties of the factories *)

\* a call of linear_interpolation on a table of at least two points with
\* the argument within the range of its keys
InRangeCall ==
    /\ ret.op = "linear_interpolation"
    /\ Cardinality(DOMAIN ret.table) >= 2
    /\ \E a, b \in DOMAIN ret.table : a <= ret.argument /\ ret.argument <= b

\* the keys next to the argument, below and above it
KeyBelow == CHOOSE a \in DOMAIN ret.table :
    /\ a < ret.argument
    /\ \A b \in DOMAIN ret.table : b < ret.argument => b <= a
KeyAbove == CHOOSE a \in DOMAIN ret.table :
    /\ a > ret.argument
    /\ \A b \in DOMAIN ret.table : b > ret.argument => a <= b

\* the fraction v is strictly between the integers p and q
StrictlyBetween(v, p, q) ==
    \/ p * v.den < v.num /\ v.num < q * v.den
    \/ q * v.den < v.num /\ v.num < p * v.den

Coefficient(n) ==
    IF n <= 3 * NScale THEN 222 * NScale - 83 * (n - 2 * NScale)
    ELSE IF n <= 4 * NScale THEN 139 * NScale - 40 * (n - 3 * NScale)
    ELSE IF n <= 5 * NScale THEN 99 * NScale - 22 * (n - 4 * NScale)
    ELSE 77 * NScale - 11 * (n - 5 * NScale)

=============================================================================
